---- MODULE Spec2Model ----
(***************************************************************************)
(* A model of arcade.gl.TextureArray (src/arcade/gl/texture_array.py):     *)
(* the Python object, the OpenGL state its calls act on, the context's     *)
(* allocation counter and the three garbage collection modes.              *)
(***************************************************************************)
EXTENDS Integers, Sequences, FiniteSets, TLC

VARIABLES
    ctx,    \* the Context: gc_mode, gl_api, info.MAX_SAMPLES, stats, objects, current
    gl,     \* the OpenGL state of the context
    tex,    \* the TextureArray objects, by identity
    last    \* the operation that ran last: its arguments, outcome and device calls

vars == <<ctx, gl, tex, last>>

----------------------------------------------------------------------------
(* Bounds of the model                                                     *)

MaxDim == 2         \* widths and heights are 1..MaxDim
MaxLayers == 2      \* layer counts are 1..MaxLayers
MaxDataLen == 2     \* byte strings handed to create and write have 0..MaxDataLen bytes

Tex == {"t1", "t2"}                 \* identities of the TextureArray objects
Undef == -1                         \* a byte whose value the device leaves unspecified
Handles == 0 .. Cardinality(Tex)    \* texture names; 0 is the default texture
Units == {0, 1}                     \* texture units of the device

default_texture_unit == 1

GL_TEXTURE_2D_ARRAY == "GL_TEXTURE_2D_ARRAY"
GL_TEXTURE_2D_MULTISAMPLE_ARRAY == "GL_TEXTURE_2D_MULTISAMPLE_ARRAY"
Targets == {GL_TEXTURE_2D_ARRAY, GL_TEXTURE_2D_MULTISAMPLE_ARRAY}

\* max(0, samples) without the floor at 0
NoFloor(a, b) == b

Min(a, b) == IF a < b THEN a ELSE b
Max(a, b) == IF a > b THEN a ELSE b

----------------------------------------------------------------------------
(* Values handed to the methods                                            *)

NoData == [kind |-> "None", bytes |-> <<>>, glo |-> 0]
BytesData(b) == [kind |-> "bytes", bytes |-> b, glo |-> 0]
BufferData(g, b) == [kind |-> "Buffer", bytes |-> b, glo |-> g]

\* Python truthiness of a data argument: None and b"" are false
Truthy(data) == data.kind = "Buffer" \/ (data.kind = "bytes" /\ Len(data.bytes) > 0)

\* the byte strings the caller hands over: <<1, 2, ..., n>>, told apart from the
\* zero bytes of a fresh client buffer and from unspecified bytes
Pattern(n) == [i \in 1..n |-> i]
AllBytes == {Pattern(n) : n \in 0..MaxDataLen}

----------------------------------------------------------------------------
(* arcade.gl.types: pixel_formats, compare_funcs; arcade.gl.utils          *)

FloatDtypes == {"f1", "f2", "f4"}
pixel_format_keys == {"f1", "f2", "f4", "i1", "i2", "i4", "u1", "u2", "u4"}

\* pixel_formats[dtype] = (base formats, internal formats, gl type, component size)
pixel_formats(dtype) ==
    LET size == CASE dtype \in {"f1", "i1", "u1"} -> 1
                  [] dtype \in {"f2", "i2", "u2"} -> 2
                  [] OTHER -> 4
        base == IF dtype \in FloatDtypes
                THEN <<"GL_RED", "GL_RG", "GL_RGB", "GL_RGBA">>
                ELSE <<"GL_RED_INTEGER", "GL_RG_INTEGER", "GL_RGB_INTEGER", "GL_RGBA_INTEGER">>
    IN  [format   |-> base,
         internal |-> [c \in 1..4 |-> [dtype |-> dtype, components |-> c]],
         type     |-> [dtype |-> dtype, size |-> size],
         size     |-> size]

NoInternalFormat == [dtype |-> "None", components |-> 0]
GL_DEPTH_COMPONENT24 == [dtype |-> "depth24", components |-> 1]
GL_UNSIGNED_INT == [dtype |-> "u4", size |-> 4]
UnsetType == [dtype |-> "unset", size |-> 0]

\* swizzle_str_to_enum and swizzle_enum_to_str
swizzle_keys == {"R", "G", "B", "A", "0", "1"}
swizzle_str_to_enum(c) ==
    CASE c = "R" -> "GL_RED" [] c = "G" -> "GL_GREEN" [] c = "B" -> "GL_BLUE"
      [] c = "A" -> "GL_ALPHA" [] c = "0" -> "GL_ZERO" [] c = "1" -> "GL_ONE"
swizzle_enum_to_str(e) ==
    CASE e = "GL_RED" -> "R" [] e = "GL_GREEN" -> "G" [] e = "GL_BLUE" -> "B"
      [] e = "GL_ALPHA" -> "A" [] e = "GL_ZERO" -> "0" [] e = "GL_ONE" -> "1"

\* str.upper() of one character
upper(c) ==
    CASE c = "r" -> "R" [] c = "g" -> "G" [] c = "b" -> "B" [] c = "a" -> "A"
      [] c = "x" -> "X" [] OTHER -> c

NotAString == "<int>"      \* a value that is neither a str nor None
compare_func_keys == {"None", "<=", "<", ">=", ">", "==", "!=", "0", "1"}

\* data_to_ctypes(data) -> (byte length, data)
data_to_ctypes(data) == [byte_size |-> Len(data.bytes), data |-> data]

\* components of a base format; bytes of one texel for (format, type)
FormatComponents(format) ==
    CASE format \in {"GL_RED", "GL_RED_INTEGER", "GL_DEPTH_COMPONENT"} -> 1
      [] format \in {"GL_RG", "GL_RG_INTEGER"} -> 2
      [] format \in {"GL_RGB", "GL_RGB_INTEGER"} -> 3
      [] OTHER -> 4

TexelBytes(format, type) == FormatComponents(format) * type.size

----------------------------------------------------------------------------
(* The OpenGL state and the calls the texture issues (pyglet.gl)           *)

\* allocs counts the storage allocations of a name: 0, 1 or 2 for "more than one"
NoImage == [w |-> 0, h |-> 0, layers |-> 0, texel |-> 0, samples |-> 0,
            fixed |-> FALSE, allocs |-> 0, data |-> <<>>]

\* GL_TEXTURE_SWIZZLE_R, _G, _B, _A of a texture, as the device sets them
DefaultSwizzle == <<"GL_RED", "GL_GREEN", "GL_BLUE", "GL_ALPHA">>
SwizzleParams == <<"GL_TEXTURE_SWIZZLE_R", "GL_TEXTURE_SWIZZLE_G",
                   "GL_TEXTURE_SWIZZLE_B", "GL_TEXTURE_SWIZZLE_A">>

InitGL ==
    [active |-> 0,
     bound  |-> [u \in Units |-> [t \in Targets |-> 0]],
     names  |-> {},
     image  |-> [h \in Handles |-> NoImage],
     swizzle |-> [h \in Handles |-> DefaultSwizzle],
     resident |-> [h \in Handles |-> FALSE],
     unpack |-> 0,
     calls  |-> <<>>]

Call(f, glo, unit, args) == [f |-> f, glo |-> glo, unit |-> unit, args |-> args]

\* the texture a call on `target` acts on: the one bound on the active unit
BoundTexture(g, target) == g.bound[g.active][target]

Log(g, f, glo, args) == [g EXCEPT !.calls = Append(@, Call(f, glo, g.active, args))]

glActiveTexture(g, unit) ==
    [Log(g, "glActiveTexture", 0, <<unit>>) EXCEPT !.active = unit]

\* the name the device hands out: 0 when it fails, else the lowest unused name
FreeNames(g) == {h \in Handles \ {0} : h \notin g.names}
LowestFree(g) == CHOOSE h \in FreeNames(g) : \A k \in FreeNames(g) : h <= k

glGenTextures(g, name) ==
    [Log(g, "glGenTextures", name, <<>>) EXCEPT
        !.names = IF name = 0 THEN @ ELSE @ \cup {name}]

glBindTexture(g, target, glo) ==
    LET g1 == Log(g, "glBindTexture", glo, <<>>)
    IN  [g1 EXCEPT !.bound[g.active][target] = glo]

glPixelStorei(g, pname, value) == Log(g, "glPixelStorei", 0, <<value>>)

glTexParameter(g, target, pname, value) ==
    Log(g, pname, BoundTexture(g, target), <<>>)

\* glTexParameteri(target, GL_TEXTURE_SWIZZLE_x, value), x the i-th channel
glTexParameteriSwizzle(g, target, i, value) ==
    [Log(g, SwizzleParams[i], BoundTexture(g, target), <<>>) EXCEPT
        !.swizzle[BoundTexture(g, target)][i] = value]

\* glGetTexParameteriv(target, GL_TEXTURE_SWIZZLE_x, ...), once per channel
glGetTexParameterivSwizzle(g, target) ==
    [g EXCEPT !.calls = @ \o [i \in 1..4 |->
        Call("glGetTexParameteriv", BoundTexture(g, target), g.active, <<i>>)]]

\* glGetTextureHandleARB(texture): the bindless handle of a texture, the same
\* for every call on one texture; the call fails on a name that is no texture
HandleOf(glo) == [texture |-> glo]
TextureHandleOK(g, glo) == glo \in g.names
glGetTextureHandleARB(g, glo) == Log(g, "glGetTextureHandleARB", glo, <<>>)

glIsTextureHandleResidentARB(g, handle) ==
    Log(g, "glIsTextureHandleResidentARB", handle.texture, <<>>)

glMakeTextureHandleResidentARB(g, handle) ==
    [Log(g, "glMakeTextureHandleResidentARB", handle.texture, <<>>) EXCEPT
        !.resident[handle.texture] = TRUE]

glMakeTextureHandleNonResidentARB(g, handle) ==
    [Log(g, "glMakeTextureHandleNonResidentARB", handle.texture, <<>>) EXCEPT
        !.resident[handle.texture] = FALSE]

\* n bytes of image data read from a client byte string: bytes the string does
\* not hold are read from beyond it and have no specified value
ClientBytes(bytes, n) ==
    [i \in 1..n |-> IF i <= Len(bytes) THEN bytes[i] ELSE Undef]

\* glTexImage3D / glCompressedTexImage3D: (re)allocate the mutable image
TexImageOK(g, target) == ~g.image[BoundTexture(g, target)].fixed

glTexImage3D(g, target, width, height, layers, texel, data) ==
    LET glo == BoundTexture(g, target)
        g1 == Log(g, "glTexImage3D", glo, <<width, height, layers>>)
        n == width * height * layers * texel
    IN  IF ~TexImageOK(g, target) THEN g1
        ELSE [g1 EXCEPT !.image[glo] =
                [w |-> width, h |-> height, layers |-> layers, texel |-> texel,
                 samples |-> 0, fixed |-> FALSE, allocs |-> Min(@.allocs + 1, 2),
                 data |-> IF data.kind = "None" THEN [i \in 1..n |-> Undef]
                          ELSE ClientBytes(data.bytes, n)]]

glCompressedTexImage3D(g, target, width, height, layers, size, data) ==
    LET glo == BoundTexture(g, target)
        g1 == Log(g, "glCompressedTexImage3D", glo, <<width, height, layers>>)
    IN  IF ~TexImageOK(g, target) THEN g1
        ELSE [g1 EXCEPT !.image[glo] =
                [w |-> width, h |-> height, layers |-> layers, texel |-> 0,
                 samples |-> 0, fixed |-> FALSE, allocs |-> Min(@.allocs + 1, 2),
                 data |-> ClientBytes(data.bytes, size)]]

glTexImage3DMultisample(g, target, samples, width, height, layers) ==
    LET glo == BoundTexture(g, target)
        g1 == Log(g, "glTexImage3DMultisample", glo, <<width, height, layers>>)
    IN  IF ~TexImageOK(g, target) THEN g1
        ELSE [g1 EXCEPT !.image[glo] =
                [w |-> width, h |-> height, layers |-> layers, texel |-> 0,
                 samples |-> samples, fixed |-> FALSE, allocs |-> Min(@.allocs + 1, 2),
                 data |-> <<>>]]

\* glTexStorage3D: immutable storage, once, never on the default texture
TexStorageOK(g, target) ==
    BoundTexture(g, target) # 0 /\ ~g.image[BoundTexture(g, target)].fixed

glTexStorage3D(g, target, width, height, layers, texel) ==
    LET glo == BoundTexture(g, target)
        g1 == Log(g, "glTexStorage3D", glo, <<width, height, layers>>)
        n == width * height * layers * texel
    IN  IF ~TexStorageOK(g, target) THEN g1
        ELSE [g1 EXCEPT !.image[glo] =
                [w |-> width, h |-> height, layers |-> layers, texel |-> texel,
                 samples |-> 0, fixed |-> TRUE, allocs |-> Min(@.allocs + 1, 2),
                 data |-> [i \in 1..n |-> Undef]]]

\* glTexSubImage3D(target, level, xoffset, yoffset, zoffset, width, height,
\* depth, format, type, pixels): the region must lie inside the image
SubImageOK(g, target, x, y, z, w, h, d) ==
    LET im == g.image[BoundTexture(g, target)]
    IN  /\ x >= 0 /\ y >= 0 /\ z >= 0 /\ w >= 0 /\ h >= 0 /\ d >= 0
        /\ x + w <= im.w /\ y + h <= im.h /\ z + d <= im.layers

glTexSubImage3D(g, target, x, y, z, w, h, d, texel, data) ==
    LET glo == BoundTexture(g, target)
        im == g.image[glo]
        g1 == Log(g, "glTexSubImage3D", glo, <<x, y, z, w, h, d>>)
        src == ClientBytes(data.bytes, w * h * d * texel)
        \* the byte of the region that image byte i (1-based) takes, or 0
        From(i) ==
            LET k == i - 1
                b == k % texel
                px == (k \div texel) % im.w
                py == (k \div (texel * im.w)) % im.h
                pz == k \div (texel * im.w * im.h)
            IN  IF px >= x /\ px < x + w /\ py >= y /\ py < y + h /\ pz >= z /\ pz < z + d
                THEN (((pz - z) * h + (py - y)) * w + (px - x)) * texel + b + 1
                ELSE 0
    IN  IF ~SubImageOK(g, target, x, y, z, w, h, d) THEN g1
        ELSE IF texel # im.texel
        THEN \* the image is not stored in the layout of the data: its bytes after
             \* the device's conversion are not modelled
             [g1 EXCEPT !.image[glo].data = [i \in 1..Len(im.data) |-> Undef]]
        ELSE [g1 EXCEPT !.image[glo].data =
                [i \in 1..Len(im.data) |-> IF From(i) = 0 THEN im.data[i] ELSE src[From(i)]]]

\* glGetTexImage into a client buffer of n zero bytes: the image's bytes, as
\* far as the buffer holds them
glGetTexImage(g, target) == Log(g, "glGetTexImage", BoundTexture(g, target), <<>>)

ImageBytes(g, target, n) ==
    LET im == g.image[BoundTexture(g, target)]
    IN  [i \in 1..n |-> IF i <= Len(im.data) THEN im.data[i] ELSE 0]

glGenerateMipmap(g, target) == Log(g, "glGenerateMipmap", BoundTexture(g, target), <<>>)

glBindBuffer(g, buffer) ==
    [Log(g, "glBindBuffer", 0, <<buffer>>) EXCEPT !.unpack = buffer]

\* glDeleteTextures: the name is freed and every binding of it reverts to 0
glDeleteTextures(g, glo) ==
    LET g1 == Log(g, "glDeleteTextures", glo, <<>>)
    IN  [g1 EXCEPT
            !.names = @ \ {glo},
            !.image[glo] = NoImage,
            !.swizzle[glo] = DefaultSwizzle,
            !.resident[glo] = FALSE,
            !.bound = [u \in Units |-> [t \in Targets |->
                          IF g.bound[u][t] = glo THEN 0 ELSE g.bound[u][t]]]]

----------------------------------------------------------------------------
(* The TextureArray object                                                 *)

UNSET == "UNSET"       \* a slot that was never assigned: reading it raises AttributeError
NoFilter == <<>>       \* filter=None
NoViewport == [given |-> FALSE, v |-> <<>>]        \* viewport=None
Viewport(v) == [given |-> TRUE, v |-> v]           \* viewport=(...)
TruthyViewport(viewport) == viewport.given /\ Len(viewport.v) > 0    \* `if viewport:`

NoTexture ==
    [phase |-> "absent", finalizer |-> "none", deletes |-> 0, glo |-> 0,
     width |-> 0, height |-> 0, layers |-> 0, dtype |-> "", components |-> 0,
     component_size |-> 0, target |-> GL_TEXTURE_2D_ARRAY, samples |-> 0,
     depth |-> FALSE, immutable |-> FALSE, compare_func |-> "None",
     internal_format |-> NoInternalFormat, compressed |-> FALSE,
     compressed_data |-> FALSE, filter |-> NoFilter, wrap_x |-> "", wrap_y |-> "",
     format |-> UNSET, type |-> UnsetType, anisotropy |-> 0]

\* what a method call leaves: the object, the device, the exception raised
\* ("none" when it returned) and the value returned
Ok(self, g) == [self |-> self, gl |-> g, exc |-> "none", ret |-> <<>>]
Raise(self, g, e) == [self |-> self, gl |-> g, exc |-> e, ret |-> <<>>]
Return(self, g, v) == [self |-> self, gl |-> g, exc |-> "none", ret |-> v]

\* a mutator that leaves the active unit and its binding as an earlier call set them
RebindStale(self, g) == g

Rebind(self, g) ==
    glBindTexture(glActiveTexture(g, default_texture_unit), self.target, self.glo)

\* _validate_data_size without the comparison against the expected size
validate_data_size_unchecked(self, byte_data, byte_size, width, height, layers) ==
    IF Len(byte_data.bytes) # byte_size THEN "ValueError" ELSE "none"

\* _validate_data_size: the exception it raises, or "none"
validate_data_size(self, byte_data, byte_size, width, height, layers) ==
    IF self.compressed THEN "none"
    ELSE LET expected_size == width * height * layers * self.component_size * self.components
         IN  IF byte_size # expected_size THEN "ValueError"
             ELSE IF Len(byte_data.bytes) # byte_size THEN "ValueError"
             ELSE "none"

\* filter.setter
set_filter(self, g, value) ==
    IF Len(value) # 2 THEN Raise(self, g, "ValueError")
    ELSE Ok([self EXCEPT !.filter = value],
            glTexParameter(
                glTexParameter(Rebind(self, g), self.target, "GL_TEXTURE_MIN_FILTER", value[1]),
                self.target, "GL_TEXTURE_MAG_FILTER", value[2]))

\* wrap_x.setter
set_wrap_x(self, g, value) ==
    Ok([self EXCEPT !.wrap_x = value],
       glTexParameter(Rebind(self, g), self.target, "GL_TEXTURE_WRAP_S", value))

\* wrap_y.setter
set_wrap_y(self, g, value) ==
    Ok([self EXCEPT !.wrap_y = value],
       glTexParameter(Rebind(self, g), self.target, "GL_TEXTURE_WRAP_T", value))

\* compare_func.setter, once the value is accepted
compare_func_calls(self, g, value) ==
    IF value = "None"
    THEN glTexParameter(g, self.target, "GL_TEXTURE_COMPARE_MODE", "GL_NONE")
    ELSE glTexParameter(
             glTexParameter(g, self.target, "GL_TEXTURE_COMPARE_MODE",
                            "GL_COMPARE_REF_TO_TEXTURE"),
             self.target, "GL_TEXTURE_COMPARE_FUNC", value)

\* a compare_func setter without the test of self._depth
set_compare_func_any(self, g, value) ==
    IF value \notin compare_func_keys THEN Raise(self, g, "ValueError")
    ELSE Ok([self EXCEPT !.compare_func = value],
            compare_func_calls(self, Rebind(self, g), value))

\* compare_func.setter; for a value that is neither str nor None the message of
\* the error reads self._compare_funcs, which is no slot of the class
set_compare_func(self, g, value) ==
    IF ~self.depth THEN Raise(self, g, "ValueError")
    ELSE IF value = NotAString THEN Raise(self, g, "AttributeError")
    ELSE IF value \notin compare_func_keys THEN Raise(self, g, "ValueError")
    ELSE Ok([self EXCEPT !.compare_func = value],
            compare_func_calls(self, Rebind(self, g), value))

\* a value handed to the swizzle setter: a string, as its characters, or
\* something that is no string
Str(chars) == [kind |-> "str", chars |-> chars]
NotStr == [kind |-> "int", chars |-> <<>>]

\* swizzle.setter, glTexParameteri for channel i
swizzle_call(self, g, chars, i) ==
    glTexParameteriSwizzle(g, self.target, i, swizzle_str_to_enum(upper(chars[i])))

\* swizzle.setter, the four glTexParameteri calls
swizzle_calls(self, g, chars) ==
    swizzle_call(self,
        swizzle_call(self,
            swizzle_call(self, swizzle_call(self, g, chars, 1), chars, 2),
            chars, 3),
        chars, 4)

\* a swizzle setter that looks each character up as it sets its channel
RECURSIVE swizzle_lazy(_, _, _, _)
swizzle_lazy(self, g, chars, i) ==
    IF i > 4 THEN Ok(self, g)
    ELSE IF upper(chars[i]) \notin swizzle_keys THEN Raise(self, g, "ValueError")
    ELSE swizzle_lazy(self, swizzle_call(self, g, chars, i), chars, i + 1)

set_swizzle_lazy(self, g, value) ==
    IF value.kind # "str" THEN Raise(self, g, "ValueError")
    ELSE IF Len(value.chars) # 4 THEN Raise(self, g, "ValueError")
    ELSE swizzle_lazy(self, Rebind(self, g), value.chars, 1)

\* swizzle.setter
set_swizzle(self, g, value) ==
    IF value.kind # "str" THEN Raise(self, g, "ValueError")
    ELSE IF Len(value.chars) # 4 THEN Raise(self, g, "ValueError")
    ELSE IF \E i \in 1..4 : upper(value.chars[i]) \notin swizzle_keys
    THEN Raise(self, g, "ValueError")
    ELSE Ok(self, swizzle_calls(self, Rebind(self, g), value.chars))

\* the swizzle getter, the values read; g is the device the four
\* glGetTexParameteriv calls act on
swizzle_read(self, g) ==
    Return(self, glGetTexParameterivSwizzle(g, self.target),
           [i \in 1..4 |-> swizzle_enum_to_str(g.swizzle[BoundTexture(g, self.target)][i])])

\* a swizzle getter that reads the texture bound by an earlier call
get_swizzle_unbound(self, g) == swizzle_read(self, g)

\* swizzle (getter)
get_swizzle(self, g) == swizzle_read(self, Rebind(self, g))

\* an anisotropy setter that stores the value as given
set_anisotropy_unclamped(self, c, g, value) ==
    Ok([self EXCEPT !.anisotropy = value],
       glTexParameter(Rebind(self, g), self.target, "GL_TEXTURE_MAX_ANISOTROPY", value))

\* anisotropy.setter
set_anisotropy(self, c, g, value) ==
    Ok([self EXCEPT !.anisotropy = Max(1, Min(value, c.MAX_TEXTURE_MAX_ANISOTROPY))],
       glTexParameter(Rebind(self, g), self.target, "GL_TEXTURE_MAX_ANISOTROPY",
                      Max(1, Min(value, c.MAX_TEXTURE_MAX_ANISOTROPY))))

\* the four calls that precede the upload in write
write_setup(self, g) ==
    glPixelStorei(glPixelStorei(Rebind(self, g), "GL_PACK_ALIGNMENT", 1),
                  "GL_UNPACK_ALIGNMENT", 1)

\* write, the glTexSubImage3D call of the bytes branch; g is the device after
\* write_setup
write_upload(self, g, data, x, y, l, w, h) ==
    IF self.format = UNSET THEN Raise(self, g, "AttributeError")
    ELSE IF ~SubImageOK(g, self.target, x, y, l, w, h, 1)
    THEN Raise(self, glTexSubImage3D(g, self.target, x, y, l, w, h, 1,
                                     TexelBytes(self.format, self.type), data),
               "GLException")
    ELSE Ok(self, glTexSubImage3D(g, self.target, x, y, l, w, h, 1,
                                  TexelBytes(self.format, self.type), data))

\* write, the bytes branch: data_to_ctypes, _validate_data_size, the upload
write_bytes(self, g, data, x, y, l, w, h) ==
    IF data.kind = "None" THEN Raise(self, g, "TypeError")
    ELSE IF validate_data_size(self, data_to_ctypes(data).data,
                               data_to_ctypes(data).byte_size, w, h, 1) # "none"
    THEN Raise(self, g, validate_data_size(self, data_to_ctypes(data).data,
                                           data_to_ctypes(data).byte_size, w, h, 1))
    ELSE write_upload(self, write_setup(self, g), data_to_ctypes(data).data, x, y, l, w, h)

\* write, the Buffer branch: glTexSubImage3D is handed (target, level, x, y, w, h,
\* l, format, type, 0), ten arguments for a function of eleven; g is the device
\* after glBindBuffer and write_setup
write_buffer(self, g) ==
    IF self.format = UNSET THEN Raise(self, g, "AttributeError")
    ELSE Raise(self, g, "TypeError")

\* write, once the region (x, y, l, w, h) is known
write_region(self, g, data, x, y, l, w, h) ==
    IF data.kind = "Buffer"
    THEN write_buffer(self, write_setup(self, glBindBuffer(g, data.glo)))
    ELSE write_bytes(self, g, data, x, y, l, w, h)

\* write(data, level, viewport)
write(self, g, data, viewport) ==
    IF self.samples > 0 THEN Raise(self, g, "ValueError")
    ELSE IF ~TruthyViewport(viewport)
    THEN write_region(self, g, data, 0, 0, 0, self.width, self.height)
    ELSE IF Len(viewport.v) = 5
    THEN write_region(self, g, data, viewport.v[1], viewport.v[2], viewport.v[3],
                      viewport.v[4], viewport.v[5])
    ELSE Raise(self, g, "ValueError")

\* _texture_2d, the result of a storage call that fails when ok is false
alloc_result(self, g, ok) ==
    IF ok THEN Ok(self, g) ELSE Raise(self, g, "GLException")

\* _texture_2d, the immutable branch after glTexStorage3D
texture_2d_written(self, g, ok, data) ==
    IF ~ok THEN Raise(self, g, "GLException")
    ELSE IF Truthy(data) THEN write(self, g, data, NoViewport)
    ELSE Ok(self, g)

\* _texture_2d, the normal (non-depth) texture; self has _format and
\* _internal_format set
texture_2d_normal(self, g, data) ==
    IF self.immutable
    THEN texture_2d_written(self,
             glTexStorage3D(g, self.target, self.width, self.height, self.layers,
                            TexelBytes(self.format, self.type)),
             TexStorageOK(g, self.target), data)
    ELSE IF self.compressed_data
    THEN IF data.kind = "None" THEN Raise(self, g, "TypeError")
         ELSE alloc_result(self,
                  glCompressedTexImage3D(g, self.target, self.width, self.height,
                                         self.layers, Len(data.bytes), data),
                  TexImageOK(g, self.target))
    ELSE alloc_result(self,
             glTexImage3D(g, self.target, self.width, self.height, self.layers,
                          TexelBytes(self.format, self.type), data),
             TexImageOK(g, self.target))

\* _texture_2d, the depth texture after glTexImage3D
texture_2d_compare(self, g, ok) ==
    IF ~ok THEN Raise(self, g, "GLException")
    ELSE set_compare_func(self, g, "<=")

\* _texture_2d, after the multisample branch; g is the device after the two
\* glPixelStorei calls
texture_2d_storage(self, g, data) ==
    IF self.depth
    THEN texture_2d_compare(self,
             glTexImage3D(g, self.target, self.width, self.height, self.layers,
                          TexelBytes("GL_DEPTH_COMPONENT", GL_UNSIGNED_INT), data),
             TexImageOK(g, self.target))
    ELSE texture_2d_normal(
             [self EXCEPT
                 !.format = pixel_formats(self.dtype).format[self.components],
                 !.internal_format =
                     IF @ = NoInternalFormat
                     THEN pixel_formats(self.dtype).internal[self.components] ELSE @],
             g, data)

\* _texture_2d, once the format is resolved; self has _type and _component_size set
texture_2d_resolved(self, g, data) ==
    IF data.kind # "None"
       /\ validate_data_size(self, data_to_ctypes(data).data, data_to_ctypes(data).byte_size,
                             self.width, self.height, self.layers) # "none"
    THEN Raise(self, g, "ValueError")
    ELSE IF self.target = GL_TEXTURE_2D_MULTISAMPLE_ARRAY
    THEN alloc_result(self,
             glTexImage3DMultisample(g, self.target, self.samples,
                                     self.width, self.height, self.layers),
             TexImageOK(g, self.target))
    ELSE texture_2d_storage(self,
             glPixelStorei(glPixelStorei(g, "GL_UNPACK_ALIGNMENT", 1),
                           "GL_PACK_ALIGNMENT", 1),
             data)

\* _texture_2d(data)
texture_2d(self, g, data) ==
    IF self.dtype \notin pixel_format_keys THEN Raise(self, g, "ValueError")
    ELSE texture_2d_resolved(
             [self EXCEPT !.type = pixel_formats(self.dtype).type,
                          !.component_size = pixel_formats(self.dtype).size],
             g, data)

\* read, the full API branch; g is the device after the rebind and glPixelStorei
read_gl(self, g) ==
    IF self.format = UNSET THEN Raise(self, g, "AttributeError")
    ELSE Return(self, glGetTexImage(g, self.target),
                ImageBytes(g, self.target,
                           self.width * self.height * self.layers
                               * self.component_size * self.components))

\* read without the check of the sample count
read_unchecked(self, g, gl_api) ==
    IF gl_api = "gl"
    THEN read_gl(self, glPixelStorei(Rebind(self, g), "GL_PACK_ALIGNMENT", 1))
    ELSE Raise(self, g, "ValueError")

\* read(level, alignment)
read(self, g, gl_api) ==
    IF self.samples > 0 THEN Raise(self, g, "ValueError")
    ELSE IF gl_api = "gl"
    THEN read_gl(self, glPixelStorei(Rebind(self, g), "GL_PACK_ALIGNMENT", 1))
    ELSE Raise(self, g, "ValueError")

\* byte_size: pixel_formats[self._dtype][3] * self._components * self.width * self.height
byte_size(self, g) ==
    Return(self, g,
           <<pixel_formats(self.dtype).size * self.components * self.width * self.height>>)

\* resize without the check for immutable storage
resize_unchecked(self, g, size) ==
    texture_2d([self EXCEPT !.width = size[1], !.height = size[2]], Rebind(self, g), NoData)

\* resize(size)
resize(self, g, size) ==
    IF self.immutable THEN Raise(self, g, "ValueError")
    ELSE texture_2d([self EXCEPT !.width = size[1], !.height = size[2]],
                    Rebind(self, g), NoData)

\* build_mipmaps(base, max_level)
build_mipmaps(self, g) ==
    IF self.samples > 0 THEN Raise(self, g, "ValueError")
    ELSE Ok(self, glGenerateMipmap(
                      glTexParameter(
                          glTexParameter(Rebind(self, g), self.target,
                                         "GL_TEXTURE_BASE_LEVEL", 0),
                          self.target, "GL_TEXTURE_MAX_LEVEL", 1000),
                      self.target))

\* get_handle that moves the handle in or out of residency without asking
\* whether it is resident
get_handle_unasked(self, g, resident) ==
    IF ~TextureHandleOK(g, self.glo)
    THEN Raise(self, glGetTextureHandleARB(g, self.glo), "GLException")
    ELSE Return(self,
             IF resident
             THEN glMakeTextureHandleResidentARB(
                      glIsTextureHandleResidentARB(glGetTextureHandleARB(g, self.glo),
                                                   HandleOf(self.glo)),
                      HandleOf(self.glo))
             ELSE glMakeTextureHandleNonResidentARB(
                      glIsTextureHandleResidentARB(glGetTextureHandleARB(g, self.glo),
                                                   HandleOf(self.glo)),
                      HandleOf(self.glo)),
             <<HandleOf(self.glo)>>)

\* get_handle, after glGetTextureHandleARB and glIsTextureHandleResidentARB
get_handle_made(self, g, handle, is_resident, resident) ==
    Return(self,
           IF resident /\ ~is_resident THEN glMakeTextureHandleResidentARB(g, handle)
           ELSE IF ~resident /\ is_resident THEN glMakeTextureHandleNonResidentARB(g, handle)
           ELSE g,
           <<handle>>)

\* get_handle(resident)
get_handle(self, g, resident) ==
    IF ~TextureHandleOK(g, self.glo)
    THEN Raise(self, glGetTextureHandleARB(g, self.glo), "GLException")
    ELSE get_handle_made(self,
             glIsTextureHandleResidentARB(glGetTextureHandleARB(g, self.glo),
                                          HandleOf(self.glo)),
             HandleOf(self.glo), g.resident[self.glo], resident)

\* use(unit)
use(self, g, unit) == Ok(self, glBindTexture(glActiveTexture(g, unit), self.target, self.glo))

\* ctx.stats.incr("texture") / ctx.stats.decr("texture")
stats_incr(c) == [c EXCEPT !.stats = @ + 1]
stats_decr(c) == [c EXCEPT !.stats = @ - 1]

\* delete_glo without the look at gl.current_context
delete_glo_any_context(c, g, glo) ==
    [ctx |-> stats_decr(c),
     gl  |-> IF glo # 0 THEN glDeleteTextures(g, glo) ELSE g]

\* delete_glo(ctx, glo): the context and the device it leaves
delete_glo(c, g, glo) ==
    IF ~c.current THEN [ctx |-> c, gl |-> g]
    ELSE [ctx |-> stats_decr(c),
          gl  |-> IF glo # 0 THEN glDeleteTextures(g, glo) ELSE g]

\* delete(): delete_glo(self._ctx, self._glo), then self._glo.value = 0
delete_done(self, r) == [self |-> [self EXCEPT !.glo = 0], ctx |-> r.ctx, gl |-> r.gl]

delete(self, c, g) == delete_done(self, delete_glo(c, g, self.glo))

\* __init__, the start: the slots assigned before the first check
init_slots(c, a) ==
    [NoTexture EXCEPT
        !.glo = 0,
        !.width = a.size[1], !.height = a.size[2], !.layers = a.size[3],
        !.dtype = a.dtype, !.components = a.components,
        !.samples = Min(Max(0, a.samples), c.MAX_SAMPLES),
        !.depth = a.depth, !.immutable = a.immutable,
        !.internal_format = a.internal_format,
        !.compressed = a.compressed, !.compressed_data = a.compressed_data,
        !.filter = IF a.dtype \in FloatDtypes THEN <<"GL_LINEAR", "GL_LINEAR">>
                   ELSE <<"GL_NEAREST", "GL_NEAREST">>,
        !.wrap_x = "GL_REPEAT", !.wrap_y = "GL_REPEAT",
        !.compare_func = "None", !.anisotropy = 1]

\* __init__, the end: the finalizer is registered under gc_mode "auto"
init_finalize(c, o) ==
    IF o.exc # "none" THEN o
    ELSE Ok([o.self EXCEPT !.finalizer = IF c.gc_mode = "auto" THEN "registered" ELSE "none"],
            o.gl)

init_wrap_y(c, o, a) ==
    IF o.exc # "none" THEN o
    ELSE init_finalize(c, set_wrap_y(o.self, o.gl,
                              IF a.wrap_y # "None" THEN a.wrap_y ELSE o.self.wrap_y))

init_wrap_x(c, o, a) ==
    IF o.exc # "none" THEN o
    ELSE init_wrap_y(c, set_wrap_x(o.self, o.gl,
                            IF a.wrap_x # "None" THEN a.wrap_x ELSE o.self.wrap_x), a)

\* __init__, after _texture_2d: the parameters of a non-multisample texture
init_params(c, o, a) ==
    IF o.exc # "none" THEN o
    ELSE IF o.self.samples # 0 THEN init_finalize(c, o)
    ELSE init_wrap_x(c, set_filter(o.self, o.gl,
                            IF a.filter # NoFilter THEN a.filter ELSE o.self.filter), a)

\* __init__, from glActiveTexture on; self has _target set and g is the device
\* after glActiveTexture and glGenTextures
init_texture(c, self, g, a) ==
    IF self.glo = 0 THEN Raise(self, g, "RuntimeError")
    ELSE init_params(c, texture_2d(self, glBindTexture(g, self.target, self.glo), a.data), a)

\* __init__, the two checks on the arguments
init_checked(c, self, g, a, name) ==
    IF self.components \notin 1..4 THEN Raise(self, g, "ValueError")
    ELSE IF Truthy(a.data) /\ self.samples > 0 THEN Raise(self, g, "ValueError")
    ELSE init_texture(c,
             [self EXCEPT !.target = IF self.samples = 0 THEN GL_TEXTURE_2D_ARRAY
                                     ELSE GL_TEXTURE_2D_MULTISAMPLE_ARRAY,
                          !.glo = name],
             glGenTextures(glActiveTexture(g, default_texture_unit), name), a)

\* __init__(ctx, size, components=..., ...), with the name glGenTextures returns
init(c, g, a, name) == init_checked(c, init_slots(c, a), g, a, name)

----------------------------------------------------------------------------
(* The state machine: one action per call the program makes                *)

\* the arguments of TextureArray(ctx, size, ...)
Args(size, components, dtype, data, depth, samples, immutable, compressed, compressed_data) ==
    [size |-> size, components |-> components, dtype |-> dtype, data |-> data,
     filter |-> NoFilter, wrap_x |-> "None", wrap_y |-> "None",
     depth |-> depth, samples |-> samples, immutable |-> immutable,
     internal_format |-> NoInternalFormat,
     compressed |-> compressed, compressed_data |-> compressed_data]

NoArgs == Args(<<>>, 0, "", NoData, FALSE, 0, FALSE, FALSE, FALSE)

NoOp == [op |-> "none", t |-> "", exc |-> "none", ret |-> <<>>, data |-> NoData,
         viewport |-> NoViewport, size |-> <<>>, args |-> NoArgs,
         pre |-> NoTexture, stats0 |-> 0,
         value |-> NotStr, swizzle |-> [t \in Tex |-> <<>>],
         handle |-> [t \in Tex |-> <<>>], built |-> {}]

\* the record of the call that ran last: what it was handed, how it ended, and
\* the object and the allocation counter it started from; with it, for each
\* texture, the swizzle its setter accepted last and the handle get_handle
\* returned first (<<>>: none yet), and the textures whose constructor returned
Ran(op, t, exc, ret, data, viewport, size) ==
    [op |-> op, t |-> t, exc |-> exc, ret |-> ret, data |-> data,
     viewport |-> viewport, size |-> size, args |-> NoArgs,
     pre |-> IF t \in Tex THEN tex[t] ELSE NoTexture,
     stats0 |-> ctx.stats,
     value |-> NotStr, swizzle |-> last.swizzle, handle |-> last.handle,
     built |-> last.built]

Fresh == [gl EXCEPT !.calls = <<>>]     \* the device, its call log cleared

Usable(t) == tex[t].phase = "constructed" /\ ctx.current

\* a context with its limits (ctx.info) and no textures
InitLimits(gc_modes, gl_apis, max_samples, max_anisotropy) ==
    /\ ctx \in [gc_mode : gc_modes, gl_api : gl_apis, MAX_SAMPLES : max_samples,
                MAX_TEXTURE_MAX_ANISOTROPY : max_anisotropy,
                stats : {0}, objects : {<<>>}, current : {TRUE}]
    /\ gl = InitGL
    /\ tex = [t \in Tex |-> NoTexture]
    /\ last = [NoOp EXCEPT !.op = "start"]

InitWith(gc_modes, gl_apis, max_samples) == InitLimits(gc_modes, gl_apis, max_samples, {16})

\* the names glGenTextures may return: the lowest unused one, or 0 on failure
GenNames == {0} \cup (IF FreeNames(gl) = {} THEN {} ELSE {LowestFree(gl)})

\* the constructor's outcome becomes the next state; ctx.stats.incr("texture")
\* is its last statement
Created(t, a, o) ==
    /\ tex' = [tex EXCEPT ![t] =
                 [o.self EXCEPT !.phase = IF o.exc = "none" THEN "constructed" ELSE "failed"]]
    /\ gl' = o.gl
    /\ ctx' = IF o.exc = "none" THEN stats_incr(ctx) ELSE ctx
    /\ last' = [Ran("create", t, o.exc, <<>>, a.data, NoViewport, a.size) EXCEPT
                   !.args = a,
                   !.built = IF o.exc = "none" THEN @ \cup {t} ELSE @]

\* the constructor runs once for an object: the arguments S while t is yet to
\* be constructed
Unbuilt(t, S) == IF tex[t].phase = "absent" THEN S ELSE {}

\* TextureArray(ctx, size, ...)
Create(t, a, name) ==
    /\ tex[t].phase = "absent"
    /\ ctx.current
    /\ Created(t, a, init(ctx, Fresh, a, name))

\* the outcome of a method of texture t becomes the next state
Method(op, t, o, data, viewport, size) ==
    /\ tex' = [tex EXCEPT ![t] = o.self]
    /\ gl' = o.gl
    /\ ctx' = ctx
    /\ last' = Ran(op, t, o.exc, o.ret, data, viewport, size)

Write(t, data, viewport) ==
    /\ Usable(t)
    /\ Method("write", t, write(tex[t], Fresh, data, viewport), data, viewport, <<>>)

Read(t) ==
    /\ Usable(t)
    /\ Method("read", t, read(tex[t], Fresh, ctx.gl_api), NoData, NoViewport, <<>>)

Resize(t, size) ==
    /\ Usable(t)
    /\ Method("resize", t, resize(tex[t], Fresh, size), NoData, NoViewport, size)

BuildMipmaps(t) ==
    /\ Usable(t)
    /\ Method("build_mipmaps", t, build_mipmaps(tex[t], Fresh), NoData, NoViewport, <<>>)

Use(t, unit) ==
    /\ Usable(t)
    /\ Method("use", t, use(tex[t], Fresh, unit), NoData, NoViewport, <<unit>>)

\* texture.swizzle = value
SetSwizzled(t, value, o) ==
    /\ tex' = [tex EXCEPT ![t] = o.self]
    /\ gl' = o.gl
    /\ ctx' = ctx
    /\ last' = [Ran("set_swizzle", t, o.exc, <<>>, NoData, NoViewport, <<>>) EXCEPT
                   !.value = value,
                   !.swizzle[t] = IF o.exc = "none"
                                  THEN [i \in 1..4 |-> upper(value.chars[i])] ELSE @]

SetSwizzle(t, value) ==
    /\ Usable(t)
    /\ SetSwizzled(t, value, set_swizzle(tex[t], Fresh, value))

\* texture.swizzle
GetSwizzle(t) ==
    /\ Usable(t)
    /\ Method("get_swizzle", t, get_swizzle(tex[t], Fresh), NoData, NoViewport, <<>>)

\* texture.compare_func = value
SetCompareFunc(t, value) ==
    /\ Usable(t)
    /\ Method("set_compare_func", t, set_compare_func(tex[t], Fresh, value),
              NoData, NoViewport, <<value>>)

\* texture.anisotropy = value
SetAnisotropy(t, value) ==
    /\ Usable(t)
    /\ Method("set_anisotropy", t, set_anisotropy(tex[t], ctx, Fresh, value),
              NoData, NoViewport, <<value>>)

\* texture.filter = value
SetFilter(t, value) ==
    /\ Usable(t)
    /\ Method("set_filter", t, set_filter(tex[t], Fresh, value), NoData, NoViewport, value)

\* texture.wrap_x = value
SetWrapX(t, value) ==
    /\ Usable(t)
    /\ Method("set_wrap_x", t, set_wrap_x(tex[t], Fresh, value), NoData, NoViewport, <<value>>)

\* texture.wrap_y = value
SetWrapY(t, value) ==
    /\ Usable(t)
    /\ Method("set_wrap_y", t, set_wrap_y(tex[t], Fresh, value), NoData, NoViewport, <<value>>)

\* texture.byte_size
ByteSize(t) ==
    /\ Usable(t)
    /\ Method("byte_size", t, byte_size(tex[t], Fresh), NoData, NoViewport, <<>>)

\* texture.get_handle(resident)
GotHandle(t, resident, o) ==
    /\ tex' = [tex EXCEPT ![t] = o.self]
    /\ gl' = o.gl
    /\ ctx' = ctx
    /\ last' = [Ran("get_handle", t, o.exc, o.ret, NoData, NoViewport, <<resident>>) EXCEPT
                   !.handle[t] = IF @ = <<>> /\ o.exc = "none" THEN o.ret ELSE @]

GetHandle(t, resident) ==
    /\ Usable(t)
    /\ GotHandle(t, resident, get_handle(tex[t], Fresh, resident))

MaxDeletes == 2     \* delete() is called at most MaxDeletes times on one texture

\* the outcome of delete() for texture t becomes the next state
Deleted(t, r) ==
    /\ tex' = [tex EXCEPT ![t] = [r.self EXCEPT !.deletes = @ + 1]]
    /\ gl' = r.gl
    /\ ctx' = r.ctx
    /\ last' = Ran("delete", t, "none", <<>>, NoData, NoViewport, <<>>)

\* texture.delete(), by the caller
Delete(t) ==
    /\ tex[t].phase = "constructed"
    /\ tex[t].deletes < MaxDeletes
    /\ Deleted(t, delete(tex[t], ctx, Fresh))

\* __del__ that queues the object whatever its handle is
del_queues_any(self, c) == c.gc_mode = "context_gc"

\* __del__(): whether the object puts itself on ctx.objects
del_queues(self, c) == c.gc_mode = "context_gc" /\ self.glo > 0

\* the last reference to the object goes away and __del__ runs
Release(t) ==
    /\ tex[t].phase \in {"constructed", "failed"}
    /\ tex' = [tex EXCEPT ![t].phase =
                  IF del_queues(tex[t], ctx) THEN "queued" ELSE "unreachable"]
    /\ ctx' = IF del_queues(tex[t], ctx)
              THEN [ctx EXCEPT !.objects = Append(@, t)] ELSE ctx
    /\ gl' = Fresh
    /\ last' = Ran("release", t, "none", <<>>, NoData, NoViewport, <<>>)

\* the outcome of the finalizer of texture t becomes the next state
Finalized(t, r) ==
    /\ tex' = [tex EXCEPT ![t].finalizer = "done"]
    /\ gl' = r.gl
    /\ ctx' = r.ctx
    /\ last' = Ran("finalize", t, "none", <<>>, NoData, NoViewport, <<>>)

\* the weakref.finalize callback of an unreachable object runs:
\* TextureArray.delete_glo(ctx, glo)
Finalize(t) ==
    /\ tex[t].phase = "unreachable"
    /\ tex[t].finalizer = "registered"
    /\ Finalized(t, delete_glo(ctx, Fresh, tex[t].glo))

\* ctx.gc(): every queued object is popped and deleted
RECURSIVE gc(_, _)
gc_delete(t, r, d) ==
    [ctx |-> d.ctx, gl |-> d.gl,
     tex |-> [r.tex EXCEPT ![t] = [d.self EXCEPT !.phase = "unreachable"]]]

gc(objects, r) ==
    IF objects = <<>> THEN [r EXCEPT !.ctx.objects = <<>>]
    ELSE gc(Tail(objects),
            gc_delete(Head(objects), r, delete(r.tex[Head(objects)], r.ctx, r.gl)))

Collected(r) ==
    /\ tex' = r.tex
    /\ gl' = r.gl
    /\ ctx' = r.ctx
    /\ last' = Ran("gc", "", "none", <<>>, NoData, NoViewport, <<>>)

ContextGC ==
    /\ ctx.gc_mode = "context_gc"
    /\ ctx.objects # <<>>
    /\ Collected(gc(ctx.objects, [ctx |-> ctx, gl |-> Fresh, tex |-> tex]))

\* the window closes: no current context from here on
DestroyContext ==
    /\ ctx.current
    /\ ctx' = [ctx EXCEPT !.current = FALSE]
    /\ gl' = Fresh
    /\ tex' = tex
    /\ last' = Ran("destroy_context", "", "none", <<>>, NoData, NoViewport, <<>>)

----------------------------------------------------------------------------
(* Arguments the caller hands over                                         *)

Sizes == {<<w, h, l>> : w \in 1..MaxDim, h \in 1..MaxDim, l \in 1..MaxLayers}

----------------------------------------------------------------------------
(* The textures of SpecWrite and SpecResize: every size, three formats and  *)
(* every combination of depth, samples, immutable and compressed           *)

Formats == {<<1, "u1">>, <<2, "u1">>, <<1, "f2">>}      \* (components, dtype)

PlainArgs ==
    {Args(size, f[1], f[2], NoData, dp, sm, im, cp, FALSE) :
        size \in Sizes, f \in Formats, dp \in BOOLEAN,
        sm \in {0, 2}, im \in BOOLEAN, cp \in BOOLEAN}

----------------------------------------------------------------------------
(* SpecWrite: one texture is created, written and read                     *)

WriteData == {BufferData(1, Pattern(1))} \cup {BytesData(b) : b \in AllBytes}
FarCorner == Viewport(<<MaxDim - 1, 0, MaxLayers - 1, 1, 1>>)
\* viewports of the arities 0, 1, 3, 4 and 6
OddViewports == {Viewport(SubSeq(<<0, 0, 0, 1, 1, 1>>, 1, n)) : n \in {0, 1, 3, 6}}
                    \cup {Viewport(<<0, 0, 1, 1>>)}
Writes == (WriteData \X {NoViewport, FarCorner})
              \cup ({BytesData(Pattern(1))} \X OddViewports)
              \cup {<<NoData, NoViewport>>}

InitWrite == InitWith({"off"}, {"gl"}, {4})

NextWrite ==
    \/ \E a \in PlainArgs : Create("t1", a, LowestFree(gl))
    \/ \E w \in Writes : Write("t1", w[1], w[2])
    \/ Read("t1")

SpecWrite == InitWrite /\ [][NextWrite]_vars

----------------------------------------------------------------------------
(* SpecResize: one texture is created, resized, read and deleted           *)

NewSizes == {<<w, h>> : w \in 1..MaxDim, h \in 1..MaxDim}

InitResize == InitWith({"off"}, {"gl"}, {4})

NextResize ==
    \/ \E a \in PlainArgs : Create("t1", a, LowestFree(gl))
    \/ \E size \in NewSizes : Resize("t1", size)
    \/ Read("t1")
    \/ Delete("t1")

SpecResize == InitResize /\ [][NextResize]_vars

----------------------------------------------------------------------------
(* Spec: the life of two textures under the three gc modes: creation that  *)
(* succeeds or fails, delete(), the loss of the last reference, the        *)
(* finalizer, ctx.gc() and the end of the context                          *)

LifeArgs ==
    {Args(<<1, 1, 1>>, 1, "u1", d, FALSE, 0, im, FALSE, FALSE) :
        d \in {NoData, BytesData(<<1, 2>>)}, im \in BOOLEAN}

Init == InitWith({"off", "auto", "context_gc"}, {"gl"}, {4})

Next ==
    \/ \E t \in Tex, a \in LifeArgs, name \in GenNames : Create(t, a, name)
    \/ \E t \in Tex : Delete(t)
    \/ \E t \in Tex : Release(t)
    \/ \E t \in Tex : Finalize(t)
    \/ ContextGC
    \/ DestroyContext

Spec == Init /\ [][Next]_vars

----------------------------------------------------------------------------
(* SpecAuto: the life of two textures under gc mode "auto" while the       *)
(* context stays alive; the runtime runs the finalizer of every            *)
(* unreachable object that has one                                         *)

InitAuto == InitWith({"auto"}, {"gl"}, {4})

NextAuto ==
    \/ \E t \in Tex, a \in LifeArgs, name \in GenNames : Create(t, a, name)
    \/ \E t \in Tex : Delete(t)
    \/ \E t \in Tex : Release(t)
    \/ \E t \in Tex : Finalize(t)

SpecAuto == InitAuto /\ [][NextAuto]_vars /\ \A t \in Tex : WF_vars(Finalize(t))

----------------------------------------------------------------------------
(* SpecBind: two textures, each plain or depth, are created, bound with    *)
(* use(unit) on any unit and deleted while the first is changed through    *)
(* every mutator, in any interleaving                                      *)

BindArgs ==
    {Args(<<1, 1, 1>>, 1, "u1", NoData, dp, 0, FALSE, FALSE, FALSE) : dp \in BOOLEAN}
BindWrites == {BytesData(Pattern(1)), BufferData(1, Pattern(1))}

InitBind == InitWith({"off"}, {"gl"}, {4})

NextBind ==
    \/ \E t \in Tex, a \in BindArgs : Create(t, a, LowestFree(gl))
    \/ \E t \in Tex, unit \in Units : Use(t, unit)
    \/ SetFilter("t1", <<"GL_NEAREST", "GL_NEAREST">>)
    \/ SetWrapX("t1", "GL_REPEAT")
    \/ SetWrapY("t1", "GL_REPEAT")
    \/ SetAnisotropy("t1", 1)
    \/ SetCompareFunc("t1", "<=")
    \/ SetSwizzle("t1", Str(<<"R", "G", "B", "A">>))
    \/ Resize("t1", <<1, 1>>)
    \/ \E data \in BindWrites : Write("t1", data, NoViewport)
    \/ BuildMipmaps("t1")
    \/ \E t \in Tex : Delete(t)

SpecBind == InitBind /\ [][NextBind]_vars

----------------------------------------------------------------------------
(* SpecImmutable: one texture, immutable or not, of any kind is created    *)
(* and then resized, written, read and changed through its parameters      *)

ImmutableArgs ==
    {Args(<<1, 1, l>>, 1, "u1", d, dp, sm, im, FALSE, FALSE) :
        l \in 1..MaxLayers, d \in {NoData, BytesData(Pattern(1))}, dp \in BOOLEAN,
        sm \in {0, 2}, im \in BOOLEAN}

InitImmutable == InitWith({"off"}, {"gl"}, {4})

NextImmutable ==
    \/ \E a \in ImmutableArgs : Create("t1", a, LowestFree(gl))
    \/ \E size \in NewSizes : Resize("t1", size)
    \/ \E data \in {BytesData(Pattern(1)), BufferData(1, Pattern(1))} :
           Write("t1", data, NoViewport)
    \/ Read("t1")
    \/ SetFilter("t1", <<"GL_LINEAR", "GL_LINEAR">>)
    \/ SetWrapX("t1", "GL_CLAMP_TO_EDGE")
    \/ SetAnisotropy("t1", 2)
    \/ BuildMipmaps("t1")

SpecImmutable == InitImmutable /\ [][NextImmutable]_vars

----------------------------------------------------------------------------
(* SpecByteSize: one texture that is not multisampled is created, resized  *)
(* and read, and its byte_size is taken                                    *)

ByteSizeArgs ==
    {Args(size, f[1], f[2], NoData, dp, 0, FALSE, FALSE, FALSE) :
        size \in Sizes, f \in Formats, dp \in BOOLEAN}

InitByteSize == InitWith({"off"}, {"gl"}, {4})

NextByteSize ==
    \/ \E a \in ByteSizeArgs : Create("t1", a, LowestFree(gl))
    \/ \E size \in NewSizes : Resize("t1", size)
    \/ Read("t1")
    \/ ByteSize("t1")

SpecByteSize == InitByteSize /\ [][NextByteSize]_vars

----------------------------------------------------------------------------
(* SpecDeleted: one texture is created, used through every method and      *)
(* deleted, in any order                                                   *)

InitDeleted == InitWith({"off", "auto", "context_gc"}, {"gl"}, {4})

NextDeleted ==
    \/ \E a \in LifeArgs : Create("t1", a, LowestFree(gl))
    \/ Write("t1", BytesData(Pattern(1)), NoViewport)
    \/ Read("t1")
    \/ \E size \in NewSizes : Resize("t1", size)
    \/ BuildMipmaps("t1")
    \/ \E unit \in Units : Use("t1", unit)
    \/ Delete("t1")

SpecDeleted == InitDeleted /\ [][NextDeleted]_vars

----------------------------------------------------------------------------
(* SpecSwizzle: two textures are created, their swizzle is set and read,   *)
(* they are bound to units and deleted, in any order                       *)

SwizzleArgs == {Args(<<1, 1, 1>>, 1, "u1", NoData, FALSE, 0, FALSE, FALSE, FALSE)}

GoodSwizzles == {Str(<<"a", "B", "g", "r">>), Str(<<"r", "0", "0", "1">>)}
BadSwizzles == {NotStr, Str(<<"R", "G", "B">>), Str(<<"R", "G", "B", "A", "1">>),
                Str(<<"1", "0", "G", "x">>)}

InitSwizzle == InitWith({"off"}, {"gl"}, {4})

NextSwizzle ==
    \/ \E t \in Tex, a \in SwizzleArgs : Create(t, a, LowestFree(gl))
    \/ \E t \in Tex, value \in GoodSwizzles \cup BadSwizzles : SetSwizzle(t, value)
    \/ \E t \in Tex : GetSwizzle(t)
    \/ \E t \in Tex, unit \in Units : Use(t, unit)
    \/ \E t \in Tex : Delete(t)

SpecSwizzle == InitSwizzle /\ [][NextSwizzle]_vars

----------------------------------------------------------------------------
(* SpecParams: one texture of any kind is created and its compare function *)
(* and anisotropy are set, under a device maximum of 1.0 or more           *)

MaxAnisotropy == 3      \* the device maximum is 1..MaxAnisotropy

ParamArgs ==
    {Args(<<1, 1, 1>>, 1, "f4", NoData, dp, sm, im, FALSE, FALSE) :
        dp \in BOOLEAN, sm \in {0, 2}, im \in BOOLEAN}

CompareValues == {"None", "<=", "!=", "=<", NotAString}
Anisotropies == -1 .. MaxAnisotropy + 1

InitParams == InitLimits({"off"}, {"gl"}, {4}, 1..MaxAnisotropy)

NextParams ==
    \/ \E a \in ParamArgs : Create("t1", a, LowestFree(gl))
    \/ \E value \in CompareValues : SetCompareFunc("t1", value)
    \/ \E value \in Anisotropies : SetAnisotropy("t1", value)
    \/ Delete("t1")

SpecParams == InitParams /\ [][NextParams]_vars

----------------------------------------------------------------------------
(* SpecSamples: one texture is created with any requested sample count on  *)
(* either API variant, then written, read, mipmapped and deleted           *)

SampleRequests == {-1, 0, 2, 4, 8}

SampleArgs ==
    {Args(<<w, 1, 1>>, 1, "u1", NoData, dp, sm, im, cp, FALSE) :
        w \in 1..MaxDim, dp \in BOOLEAN, sm \in SampleRequests, im \in BOOLEAN,
        cp \in BOOLEAN}

SampleWrites ==
    ({NoData, BufferData(1, Pattern(1))} \cup {BytesData(b) : b \in AllBytes})
        \X {NoViewport, Viewport(<<0, 0, 0, 1, 1>>), Viewport(<<0, 0, 0>>)}

InitSamples == InitWith({"off"}, {"gl", "gles"}, {0, 4})

NextSamples ==
    \/ \E a \in SampleArgs : Create("t1", a, LowestFree(gl))
    \/ \E w \in SampleWrites : Write("t1", w[1], w[2])
    \/ Read("t1")
    \/ BuildMipmaps("t1")
    \/ Delete("t1")

SpecSamples == InitSamples /\ [][NextSamples]_vars

----------------------------------------------------------------------------
(* SpecHandle: two textures are created, their bindless handles are taken  *)
(* in and out of residency, and they are deleted                           *)

HandleArgs ==
    {Args(<<1, 1, 1>>, 1, "u1", NoData, FALSE, 0, im, FALSE, FALSE) : im \in BOOLEAN}

InitHandle == InitWith({"off"}, {"gl"}, {4})

NextHandle ==
    \/ \E t \in Tex, a \in HandleArgs : Create(t, a, LowestFree(gl))
    \/ \E t \in Tex, resident \in BOOLEAN : GetHandle(t, resident)
    \/ \E t \in Tex : Delete(t)

SpecHandle == InitHandle /\ [][NextHandle]_vars

----------------------------------------------------------------------------
(* SpecCreate: one texture is created from every combination of arguments, *)
(* then read and let go                                                    *)

BadDtype == "x9"
CreateFormats ==
    ((1..4) \X pixel_format_keys) \cup {<<0, "f1">>, <<5, "u1">>, <<1, BadDtype>>, <<4, BadDtype>>}
CreateSizes == {<<w, 1, l>> : w \in 1..MaxDim, l \in 1..MaxLayers}
CreateData == {NoData} \cup {BytesData(b) : b \in AllBytes}
Compression == {<<FALSE, FALSE>>, <<TRUE, FALSE>>, <<TRUE, TRUE>>}  \* (compressed, compressed_data)

CreateArgs ==
    {Args(size, f[1], f[2], d, dp, sm, im, cp[1], cp[2]) :
        size \in CreateSizes, f \in CreateFormats, d \in CreateData, dp \in BOOLEAN,
        sm \in {0, 2}, im \in BOOLEAN, cp \in Compression}

InitCreate == InitWith({"auto", "context_gc"}, {"gl"}, {0, 4})

NextCreate ==
    \/ \E a \in Unbuilt("t1", CreateArgs) : Create("t1", a, LowestFree(gl))
    \/ Read("t1")
    \/ Release("t1")

SpecCreate == InitCreate /\ [][NextCreate]_vars

----------------------------------------------------------------------------
(* Claims about delete and creation                                        *)

\* the calls of the last operation that went to function f
CallsOf(f) == {i \in DOMAIN gl.calls : gl.calls[i].f = f}

\* the bytes of the whole texture
TextureBytes(self) ==
    self.width * self.height * self.layers * self.component_size * self.components

\* the bytes of a texture of the given arguments
ArgsBytes(a) ==
    a.size[1] * a.size[2] * a.size[3] * pixel_formats(a.dtype).size * a.components

Supported(a) == a.components \in 1..4 /\ a.dtype \in pixel_format_keys

\* C1: delete is idempotent: under every gc mode a second delete() raises no
\* error, issues no glDeleteTextures call and leaves the 'texture' allocation
\* counter where the first delete() put it.
C1_SecondDeleteIsNoOp ==
    (last.op = "delete" /\ last.pre.deletes >= 1)
    => (/\ last.exc = "none"
        /\ CallsOf("glDeleteTextures") = {}
        /\ ctx.stats = last.stats0)

Methods == {"write", "read", "resize", "build_mipmaps", "use"}

\* C2: once delete() has destroyed a texture its handle is zero, and every
\* further operation on it raises an error instead of issuing device calls
\* against handle zero.
C2_DeletedTextureRejectsOps ==
    (last.op \in Methods /\ last.pre.deletes >= 1)
    => (/\ last.pre.glo = 0
        /\ last.exc # "none"
        /\ gl.calls = <<>>)

\* C4: for components 1..4, every supported dtype and every creation option that
\* yields a non-multisampled texture, depth=True included, read() right after
\* the creation returns width * height * layers * elementByteSize * components
\* bytes on the full API variant.
C4_ReadLengthAfterCreate ==
    (/\ last.op = "read" /\ ctx.gl_api = "gl"
     /\ last.pre.samples = 0 /\ last.pre.deletes = 0)
    => (last.exc = "none" /\ Len(last.ret) = TextureBytes(last.pre))

\* the case of C5: the constructor is handed bytes of the wrong length for a
\* supported format, on a texture that is neither multisampled nor compressed
WrongLengthCreate ==
    /\ last.op = "create" /\ Supported(last.args)
    /\ last.data.kind = "bytes"
    /\ Len(last.data.bytes) # ArgsBytes(last.args)
    /\ tex[last.t].samples = 0 /\ ~last.args.compressed

\* C5: a create call with data of the wrong byte length fails with ValueError
\* before any handle is touched: no name was generated or bound, the
\* allocation counter is unchanged and nothing is registered for cleanup.
C5_WrongLengthCreateLeavesNoHandle ==
    WrongLengthCreate
    => (/\ last.exc = "ValueError"
        /\ CallsOf("glGenTextures") = {} /\ CallsOf("glBindTexture") = {}
        /\ gl.names = {}
        /\ ctx.stats = last.stats0
        /\ tex[last.t].finalizer = "none" /\ ctx.objects = <<>>)

\* C6: a create call with samples > 0 and data fails with ValueError whatever
\* the bytes, the empty byte string included, and whatever MAX_SAMPLES is, and
\* it fails before any device call.
C6_SamplesWithDataFails ==
    (last.op = "create" /\ last.args.samples > 0 /\ last.data.kind = "bytes")
    => (last.exc = "ValueError" /\ gl.calls = <<>>)

\* C7: a create call with an unsupported dtype string or a component count
\* outside 1..4 fails with ValueError before any device call: no name was
\* generated or bound.
C7_BadFormatFailsBeforeDevice ==
    (last.op = "create" /\ ~Supported(last.args))
    => (/\ last.exc = "ValueError"
        /\ gl.calls = <<>>
        /\ gl.names = {})

----------------------------------------------------------------------------
(* Claims about write, read and resize                                     *)

\* the bytes write expects for its region: the viewport's, or the whole
\* width * height, times one layer
RegionBytes(self, viewport) ==
    (IF ~TruthyViewport(viewport) THEN self.width * self.height
     ELSE viewport.v[4] * viewport.v[5])
        * self.component_size * self.components

\* C3: on a non-multisampled, uncompressed texture on the full API variant, for
\* every layer count, a write() without viewport that write accepts, followed
\* by read(), returns exactly the bytes written.
C3_WriteReadStep ==
    (/\ last.op = "write" /\ last.exc = "none" /\ last.data.kind = "bytes"
     /\ last.viewport = NoViewport
     /\ tex[last.t].samples = 0 /\ ~tex[last.t].compressed /\ ctx.gl_api = "gl"
     /\ last'.op = "read" /\ last'.t = last.t)
    => (last'.exc = "none" /\ last'.ret = last.data.bytes)

C3_WriteReadRoundTrip == [][C3_WriteReadStep]_vars

\* C8: resize on an immutable texture fails with ValueError for every size, in
\* every state; it issues no device call and leaves the object, with its
\* width, height and layer count, as it was.
C8_ResizeImmutableFails ==
    (last.op = "resize" /\ last.pre.immutable)
    => (/\ last.exc = "ValueError"
        /\ gl.calls = <<>>
        /\ tex[last.t] = last.pre
        /\ <<tex[last.t].width, tex[last.t].height, tex[last.t].layers>>
               = <<last.pre.width, last.pre.height, last.pre.layers>>)

C8_Witness ==
    /\ last.op = "resize" /\ last.pre.immutable /\ last.exc = "ValueError"
    /\ last.size # <<last.pre.width, last.pre.height>>
    /\ last.pre.glo # 0

\* C9: resize((w2, h2)) on a mutable non-multisampled texture changes the size to
\* (w2, h2, layers), the layer count being the one of the creation, and a
\* subsequent read() returns w2 * h2 * layers * elementByteSize * components bytes.
C9_ResizeReadStep ==
    (/\ last.op = "resize" /\ ~last.pre.immutable /\ last.pre.samples = 0
     /\ last'.op = "read" /\ last'.t = last.t)
    => (/\ last.exc = "none"
        /\ <<tex[last.t].width, tex[last.t].height, tex[last.t].layers>>
               = <<last.size[1], last.size[2], last.pre.layers>>
        /\ last'.exc = "none"
        /\ Len(last'.ret) = last.size[1] * last.size[2] * last.pre.layers
                                * tex[last.t].component_size * tex[last.t].components)

C9_ResizeThenRead == [][C9_ResizeReadStep]_vars

\* C11: when write is given a viewport, it must have exactly 5 elements; a
\* given viewport of any other arity, 0 included, makes write fail with
\* ValueError without a device call.
C11_ViewportArity ==
    (last.op = "write" /\ last.viewport.given /\ Len(last.viewport.v) # 5)
    => (last.exc = "ValueError" /\ gl.calls = <<>>)

\* the case of C10: write is handed raw bytes whose length differs from the
\* length expected for the region, on a non-multisampled texture
WrongLengthWrite(l, self) ==
    /\ l.op = "write" /\ l.data.kind = "bytes"
    /\ (~TruthyViewport(l.viewport) \/ Len(l.viewport.v) = 5)
    /\ self.samples = 0
    /\ Len(l.data.bytes) # RegionBytes(self, l.viewport)

WriteAborted ==
    /\ last'.exc = "ValueError"
    /\ gl'.calls = <<>>
    /\ gl'.image = gl.image
    /\ tex' = tex

\* C10 as stated: on any non-multisampled texture and for any viewport, a write
\* of raw bytes of the wrong length fails with ValueError, issues no device
\* call and leaves the pixel contents and the object unchanged.
C10_OriginalStep == WrongLengthWrite(last', tex[last'.t]) => WriteAborted

C10_UncompressedStep ==
    (WrongLengthWrite(last', tex[last'.t]) /\ ~tex[last'.t].compressed) => WriteAborted

----------------------------------------------------------------------------
(* Claims about the parameter setters                                      *)

\* a value the swizzle setter must refuse
BadSwizzle(value) ==
    \/ value.kind # "str"
    \/ Len(value.chars) # 4
    \/ \E i \in 1..4 : upper(value.chars[i]) \notin swizzle_keys

\* C12: setting swizzle to a value that is not a string of exactly 4 characters
\* from RGBA01, in either case, fails with ValueError and modifies no swizzle
\* channel on the device, even when only the last character is invalid.
C12_SwizzleStep ==
    (last'.op = "set_swizzle" /\ BadSwizzle(last'.value))
    => (/\ last'.exc = "ValueError"
        /\ gl'.calls = <<>>
        /\ gl'.swizzle = gl.swizzle
        /\ last'.swizzle = last.swizzle)

C12_BadSwizzleRefused == [][C12_SwizzleStep]_vars

C12_Witness ==
    /\ last.op = "set_swizzle" /\ last.exc = "ValueError"
    /\ last.value = Str(<<"1", "0", "G", "x">>)
    /\ last.pre.glo # 0
    /\ gl.swizzle[last.pre.glo] # DefaultSwizzle

\* C13: after a successful swizzle set on a texture, reading swizzle returns the
\* upper-cased string of that set, also when operations on other textures,
\* their swizzle setters and use(unit) included, came in between.
C13_SwizzleRoundTrip ==
    (last.op = "get_swizzle" /\ last.pre.glo # 0 /\ last.swizzle[last.t] # <<>>)
    => (last.exc = "none" /\ last.ret = last.swizzle[last.t])

C13_Witness ==
    /\ last.op = "get_swizzle" /\ last.t = "t1" /\ last.pre.glo # 0
    /\ last.ret = <<"A", "B", "G", "R">>
    /\ last.swizzle["t2"] = <<"R", "0", "0", "1">>
    /\ tex["t2"].glo # 0
    /\ gl.bound[0][GL_TEXTURE_2D_ARRAY] = tex["t2"].glo
    /\ gl.swizzle[tex["t2"].glo] = <<"GL_RED", "GL_ZERO", "GL_ZERO", "GL_ONE">>

\* C14: the compare_func setter fails with ValueError on every texture that is
\* not a depth texture, whatever the value assigned (a valid symbol, an invalid
\* one, None, or no string at all); the failed call issues no device call and
\* compare_func stays None.
C14_CompareFuncNeedsDepth ==
    /\ (tex["t1"].phase = "constructed" /\ ~tex["t1"].depth)
           => tex["t1"].compare_func = "None"
    /\ (last.op = "set_compare_func" /\ ~last.pre.depth)
           => (last.exc = "ValueError" /\ gl.calls = <<>> /\ tex[last.t] = last.pre)

C14_Witness ==
    /\ last.op = "set_compare_func" /\ ~last.pre.depth /\ last.pre.glo # 0
    /\ last.size = <<"<=">> /\ last.exc = "ValueError"
    /\ tex[last.t].anisotropy > 1

\* C15: the anisotropy setter clamps: a value above the device maximum stores
\* the maximum, a value below 1.0 stores 1.0, a value in between is stored as
\* it is; the stored anisotropy is never above the maximum nor below 1.0.
C15_AnisotropyClamped ==
    /\ tex["t1"].phase = "constructed"
           => (tex["t1"].anisotropy >= 1
               /\ tex["t1"].anisotropy <= ctx.MAX_TEXTURE_MAX_ANISOTROPY)
    /\ last.op = "set_anisotropy"
           => /\ last.size[1] > ctx.MAX_TEXTURE_MAX_ANISOTROPY
                     => tex[last.t].anisotropy = ctx.MAX_TEXTURE_MAX_ANISOTROPY
              /\ last.size[1] < 1 => tex[last.t].anisotropy = 1
              /\ (last.size[1] >= 1 /\ last.size[1] <= ctx.MAX_TEXTURE_MAX_ANISOTROPY)
                     => tex[last.t].anisotropy = last.size[1]

C15_Witness ==
    /\ last.op = "set_anisotropy" /\ last.size[1] > ctx.MAX_TEXTURE_MAX_ANISOTROPY
    /\ last.pre.anisotropy = 1
    /\ tex[last.t].anisotropy = MaxAnisotropy

----------------------------------------------------------------------------
(* Claims about multisampled textures, handles and the life cycle          *)

\* C16: on a multisampled texture (clamped sample count > 0), read, write and
\* build_mipmaps each fail with an error before any device call, whatever
\* their arguments and whatever the API variant.
C16_MultisampleRejects ==
    (last.op \in {"read", "write", "build_mipmaps"} /\ last.pre.samples > 0)
    => (last.exc = "ValueError" /\ gl.calls = <<>> /\ tex[last.t] = last.pre)

C16_Witness ==
    /\ last.op = "read" /\ last.pre.samples = 4 /\ last.pre.glo # 0
    /\ ctx.gl_api = "gles"
    /\ last.exc = "ValueError"

\* the glMake...ResidentARB calls of the last operation
MakeCalls ==
    {i \in DOMAIN gl.calls :
        gl.calls[i].f \in {"glMakeTextureHandleResidentARB",
                           "glMakeTextureHandleNonResidentARB"}}

\* C17: get_handle is idempotent: every call on one texture returns the same
\* handle, a call whose resident argument equals the current residency issues
\* no make-resident / make-non-resident call, and after each call the texture
\* is resident exactly when the argument was true.
C17_HandleStep ==
    (last'.op = "get_handle" /\ last'.pre.glo # 0)
    => (/\ last'.exc = "none"
        /\ last.handle[last'.t] # <<>> => last'.ret = last.handle[last'.t]
        /\ gl.resident[last'.pre.glo] = last'.size[1]
               => {i \in DOMAIN gl'.calls :
                      gl'.calls[i].f \in {"glMakeTextureHandleResidentARB",
                                          "glMakeTextureHandleNonResidentARB"}} = {}
        /\ gl'.resident[last'.pre.glo] = last'.size[1])

C17_GetHandleIdempotent == [][C17_HandleStep]_vars

C17_Witness ==
    /\ last.op = "get_handle" /\ last.t = "t1" /\ last.exc = "none"
    /\ last.size = <<TRUE>> /\ MakeCalls = {}
    /\ gl.resident[tex["t1"].glo]
    /\ last.handle["t2"] # <<>> /\ tex["t2"].glo # 0 /\ ~gl.resident[tex["t2"].glo]
    /\ last.ret # last.handle["t2"]

\* the textures on the collector list ctx.objects
Queue(c) == {c.objects[i] : i \in DOMAIN c.objects}

\* the glDeleteTextures calls a step issued for the name glo
DeletesOf(g, glo) ==
    {i \in DOMAIN g.calls : g.calls[i].f = "glDeleteTextures" /\ g.calls[i].glo = glo}

\* C18: under gc mode "context_gc", the release of the last reference issues no
\* device call and puts the texture on ctx.objects exactly when its handle is
\* not zero (a texture that delete() destroyed is never queued); a queued
\* texture keeps its handle, and no glDeleteTextures call is issued for it,
\* through every step that is not the collection pass ctx.gc().
C18_QueueStep ==
    ctx.gc_mode = "context_gc"
    => (/\ last'.op = "release"
           => (/\ gl'.calls = <<>>
               /\ gl'.names = gl.names
               /\ last'.t \notin Queue(ctx)
               /\ last'.pre.glo # 0
                      <=> (last'.t \in Queue(ctx') /\ tex'[last'.t].phase = "queued")
               /\ last'.pre.deletes >= 1 => last'.t \notin Queue(ctx'))
        /\ \A t \in Tex :
               (t \in Queue(ctx) /\ last'.op # "gc")
               => (/\ t \in Queue(ctx')
                   /\ tex'[t] = tex[t] /\ tex[t].glo # 0
                   /\ tex[t].glo \in gl'.names
                   /\ DeletesOf(gl', tex[t].glo) = {}))

C18_DeferredCollect == [][C18_QueueStep]_vars

\* one texture waits on the list with its name alive on the device while the
\* other, destroyed by delete(), was released and is not on the list
C18_Witness ==
    /\ ctx.gc_mode = "context_gc" /\ ctx.current
    /\ last.op = "release" /\ last.t = "t2" /\ last.pre.deletes >= 1
    /\ ctx.objects = <<"t1">> /\ tex["t1"].phase = "queued"
    /\ tex["t1"].glo \in gl.names
    /\ tex["t2"].phase = "unreachable"

\* C20: once the context is gone (gl.current_context is None), delete() and the
\* finalizer of any remaining texture issue no device call, free no name and
\* leave the 'texture' allocation counter unchanged.
C20_TeardownStep ==
    (~ctx.current /\ last'.op \in {"delete", "finalize"})
    => (/\ gl'.calls = <<>>
        /\ gl'.names = gl.names
        /\ ctx'.stats = ctx.stats
        /\ last'.exc = "none")

C20_NoCallsAfterTeardown == [][C20_TeardownStep]_vars

\* after the teardown t2 was deleted and the finalizer of t1 ran: both names
\* are still on the device and the counter still counts both textures
C20_Witness ==
    /\ ~ctx.current /\ ctx.gc_mode = "auto"
    /\ last.op = "finalize" /\ last.t = "t1" /\ last.pre.glo \in gl.names
    /\ tex["t2"].deletes >= 1 /\ tex["t2"].glo = 0
    /\ Cardinality(gl.names) = 2
    /\ ctx.stats = 2

\* the last reference to texture t is gone and its handle, allocated by the
\* constructor, was neither zeroed by delete() nor handed to a finalizer run
Orphan(t) ==
    /\ tex[t].phase = "unreachable"
    /\ tex[t].glo # 0
    /\ tex[t].finalizer # "done"

\* a finalizer that runs after delete() issues no glDeleteTextures call, a
\* second delete() issues none, and no step issues more than one
DeleteOnceStep ==
    /\ (last'.op \in {"finalize", "delete"} /\ last'.pre.deletes >= 1)
           => {i \in DOMAIN gl'.calls : gl'.calls[i].f = "glDeleteTextures"} = {}
    /\ last'.op \in {"finalize", "delete"}
           => Cardinality(DeletesOf(gl', last'.pre.glo)) <= 1

\* C19: under gc mode "auto" with the context alive and finalizers run, every
\* handle a constructor call allocated is released on the device once the last
\* reference to the texture is gone, and glDeleteTextures is issued at most
\* once for it even when delete() was called too.
C19_HandlesReleased ==
    /\ \A t \in Tex : Orphan(t) ~> (tex[t].glo \notin gl.names)
    /\ [][DeleteOnceStep]_vars

\* the same for the textures whose constructor returned, the ones that
\* registered a finalizer
C19_ConstructedReleased ==
    /\ \A t \in Tex :
           (Orphan(t) /\ tex[t].finalizer = "registered") ~> (tex[t].glo \notin gl.names)
    /\ [][DeleteOnceStep]_vars

\* the operations that change a texture on the device
Mutators ==
    {"set_filter", "set_wrap_x", "set_wrap_y", "set_anisotropy", "set_compare_func",
     "set_swizzle", "resize", "write", "build_mipmaps"}

\* the device calls that act on the texture bound on the active unit
BoundCalls ==
    {"GL_TEXTURE_MIN_FILTER", "GL_TEXTURE_MAG_FILTER", "GL_TEXTURE_WRAP_S",
     "GL_TEXTURE_WRAP_T", "GL_TEXTURE_MAX_ANISOTROPY", "GL_TEXTURE_COMPARE_MODE",
     "GL_TEXTURE_COMPARE_FUNC", "GL_TEXTURE_BASE_LEVEL", "GL_TEXTURE_MAX_LEVEL",
     "GL_TEXTURE_SWIZZLE_R", "GL_TEXTURE_SWIZZLE_G", "GL_TEXTURE_SWIZZLE_B",
     "GL_TEXTURE_SWIZZLE_A", "glTexImage3D", "glCompressedTexImage3D",
     "glTexImage3DMultisample", "glTexStorage3D", "glTexSubImage3D",
     "glGenerateMipmap"}

\* C21: whenever a mutator of a texture T that delete() has not destroyed
\* (a parameter setter, resize, write, build_mipmaps) issues a device call
\* that acts on the bound texture, the active unit is the default texture unit
\* and the texture bound on it is T, whatever use(unit) calls and operations
\* on other textures came before.
C21_MutatorsRebind ==
    (last.op \in Mutators /\ last.pre.glo # 0)
    => \A i \in DOMAIN gl.calls :
           gl.calls[i].f \in BoundCalls
           => (/\ gl.calls[i].unit = default_texture_unit
               /\ gl.calls[i].glo = last.pre.glo)

\* t2 sits on unit 0 and t1's setter acted on t1 on the default unit
C21_Witness ==
    /\ last.op = "set_wrap_x" /\ last.t = "t1" /\ last.exc = "none"
    /\ tex["t1"].glo # 0 /\ tex["t2"].glo # 0
    /\ gl.bound[0][GL_TEXTURE_2D_ARRAY] = tex["t2"].glo
    /\ \E i \in DOMAIN gl.calls :
           /\ gl.calls[i].f = "GL_TEXTURE_WRAP_S"
           /\ gl.calls[i].glo = tex["t1"].glo

\* the case of C22: an immutable texture that is neither depth nor multisampled
\* nor compressed is created from bytes of exactly the size of the texture
ExactImmutableCreate ==
    /\ last.op = "create" /\ Supported(last.args)
    /\ last.args.immutable /\ ~last.args.depth /\ ~last.args.compressed
    /\ Min(Max(0, last.args.samples), ctx.MAX_SAMPLES) = 0
    /\ last.data.kind = "bytes"
    /\ Len(last.data.bytes) = ArgsBytes(last.args)

\* C22: creating an immutable, non-depth, non-multisampled texture from data of
\* exactly width * height * layers * elementByteSize * components bytes
\* succeeds for every layer count: glTexStorage3D is called once and the data
\* is uploaded, so the image of the texture holds the data.
C22_ImmutableCreateWithData ==
    ExactImmutableCreate
    => (/\ last.exc = "none"
        /\ Cardinality(CallsOf("glTexStorage3D")) = 1
        /\ gl.image[tex[last.t].glo].data = last.data.bytes)

\* the requested sample count clamped into [0, limit]
Clamped(samples, limit) ==
    IF samples < 0 THEN 0 ELSE IF samples > limit THEN limit ELSE samples

\* C23: for every requested sample count, negative or above the maximum
\* included, the sample count stored by a creation that succeeds is the request
\* clamped into [0, MAX_SAMPLES]; the target is GL_TEXTURE_2D_MULTISAMPLE_ARRAY
\* exactly when the stored count is above 0 and GL_TEXTURE_2D_ARRAY otherwise;
\* and no later operation changes the count or the target.
C23_SamplesStep ==
    /\ (last'.op = "create" /\ last'.exc = "none")
       => (/\ tex'[last'.t].samples = Clamped(last'.args.samples, ctx.MAX_SAMPLES)
           /\ tex'[last'.t].target =
                  IF Clamped(last'.args.samples, ctx.MAX_SAMPLES) > 0
                  THEN GL_TEXTURE_2D_MULTISAMPLE_ARRAY ELSE GL_TEXTURE_2D_ARRAY)
    /\ \A t \in Tex :
           tex[t].phase = "constructed"
           => (tex'[t].samples = tex[t].samples /\ tex'[t].target = tex[t].target)

C23_SamplesClamped == [][C23_SamplesStep]_vars

\* a request of 8 samples on a device with at most 4 was stored as 4, and the
\* texture went through a later operation
C23_Witness ==
    /\ last.op \in {"write", "read", "build_mipmaps", "delete"}
    /\ last.t = "t1" /\ tex["t1"].phase = "constructed"
    /\ ctx.MAX_SAMPLES = 4 /\ tex["t1"].samples = 4
    /\ tex["t1"].target = GL_TEXTURE_2D_MULTISAMPLE_ARRAY
    /\ gl.image[last.pre.glo].samples = 4

\* the textures whose constructor returned and whose handle was not released
\* since: neither delete() nor ctx.gc() zeroed it, and no finalizer ran
Held ==
    {t \in last.built : tex[t].glo # 0 /\ tex[t].finalizer # "done"}

\* C24: under each gc mode, in every state reached through creations that
\* succeed or fail, delete(), the loss of references, finalizers and ctx.gc()
\* while the context is alive, the 'texture' allocation counter is the number
\* of textures whose constructor returned and whose handle is not released.
C24_CounterCountsLiveTextures ==
    ctx.current => ctx.stats = Cardinality(Held)

\* the device calls that allocate the storage of the bound texture
AllocCalls ==
    {"glTexStorage3D", "glTexImage3D", "glCompressedTexImage3D", "glTexImage3DMultisample"}

\* the storage allocation calls in the call log of g
AllocsIn(g) == {i \in DOMAIN g.calls : g.calls[i].f \in AllocCalls}

\* C25: a texture created with immutable=True gets its storage in exactly one
\* allocation call, issued by the constructor; no later resize attempt, write,
\* read or parameter change issues another allocation call for its handle,
\* and its width, height and layers stay the ones given at creation.
C25_ImmutableStep ==
    /\ (last'.op = "create" /\ last'.exc = "none" /\ last'.args.immutable)
       => (/\ Cardinality(AllocsIn(gl')) = 1
           /\ gl'.image[tex'[last'.t].glo].allocs = 1
           /\ <<tex'[last'.t].width, tex'[last'.t].height, tex'[last'.t].layers>>
                  = last'.args.size)
    /\ \A t \in Tex :
           (tex[t].phase = "constructed" /\ tex[t].immutable)
           => (/\ AllocsIn(gl') = {}
               /\ gl'.image[tex[t].glo].allocs = 1
               /\ tex'[t].width = tex[t].width
               /\ tex'[t].height = tex[t].height
               /\ tex'[t].layers = tex[t].layers)

C25_ImmutableAllocatedOnce == [][C25_ImmutableStep]_vars

\* a resize to another size was refused on an immutable two-layer texture
C25_Witness ==
    /\ last.op = "resize" /\ last.pre.immutable /\ last.exc = "ValueError"
    /\ last.size # <<last.pre.width, last.pre.height>>
    /\ tex["t1"].layers = MaxLayers
    /\ gl.image[tex["t1"].glo].allocs = 1
    /\ gl.image[tex["t1"].glo].fixed

\* C26: byte_size of a texture that is not multisampled is
\* width * height * layers * elementByteSize * components for every layer
\* count, also after resize, and it is the number of bytes the read() just
\* before it returned.
C26_ByteSizeStep ==
    (last'.op = "byte_size" /\ last'.pre.samples = 0)
    => (/\ last'.exc = "none"
        /\ last'.ret = <<TextureBytes(last'.pre)>>
        /\ (last.op = "read" /\ last.exc = "none") => last'.ret = <<Len(last.ret)>>)

C26_ByteSizeIsReadLength == [][C26_ByteSizeStep]_vars

\* the arguments (x, y, layer, width, height, depth) of the sub-image upload
\* for a viewport of five values or for the omitted viewport
Region(self, viewport) ==
    IF ~TruthyViewport(viewport) THEN <<0, 0, 0, self.width, self.height, 1>>
    ELSE <<viewport.v[1], viewport.v[2], viewport.v[3], viewport.v[4], viewport.v[5], 1>>

\* the glTexSubImage3D calls of the last operation with the given arguments
UploadsOf(args) ==
    {i \in DOMAIN gl.calls : gl.calls[i].f = "glTexSubImage3D" /\ gl.calls[i].args = args}

\* the case of C27: write() on a plain texture (not multisampled, not depth,
\* not deleted) with the viewport omitted or of five values
RegionWrite ==
    /\ last.op = "write" /\ last.pre.samples = 0 /\ ~last.pre.depth
    /\ last.pre.glo # 0
    /\ TruthyViewport(last.viewport) => Len(last.viewport.v) = 5

\* C27: write from a Buffer targets the region write from bytes targets: for
\* every viewport (x, y, layer, width, height) and for the omitted viewport
\* the Buffer path issues glTexSubImage3D with offset (x, y, layer) and extent
\* (width, height, 1), as the bytes path does for data it accepts, and it
\* leaves GL_PIXEL_UNPACK_BUFFER bound to 0.
C27_BufferWriteSameRegion ==
    /\ (RegionWrite /\ last.data.kind = "bytes" /\ last.exc = "none")
       => UploadsOf(Region(last.pre, last.viewport)) # {}
    /\ (RegionWrite /\ last.data.kind = "Buffer")
       => (/\ UploadsOf(Region(last.pre, last.viewport)) # {}
           /\ gl.unpack = 0)

====
